---- MODULE Spec2Model ----
(***************************************************************************)
(* Model of recommender_train.ipynb: the notebook's code cells run top to  *)
(* bottom, one action per cell.  The pandas / scipy / implicit calls are   *)
(* modelled by what they compute on the notebook's data:                   *)
(*   groupby(...).size()  groups in sorted key order, counts occurrences;  *)
(*   Series.unique()      distinct values in order of first appearance;    *)
(*   sorted(), cat.codes  ascending categories, 0-based category codes;    *)
(*   coo_matrix/tocsr     dense view of the summed (row, col, value)s;     *)
(*   model.fit            yields some factor matrices of the right shape;  *)
(*   model.recommend      top-N items by score, liked items filtered.      *)
(* Python positions are 0-based; sequences here are 1-based, At(s, p) is   *)
(* s[p] of the notebook.  read_csv(header=None) names the columns 0 and 1; *)
(* the model names them 'artists' and 'venues' as cell 5efe7571 states and *)
(* as the groupby of cell deb04a0c needs.                                  *)
(***************************************************************************)
EXTENDS Integers, Sequences, FiniteSets, TLC

VARIABLES
    pc,            \* the cell to run next (the cell that raised, once err is set)
    err,           \* the exception that stopped the notebook, "" if none
    data_csv,      \* rows of data.csv, in file order
    implicit_data, \* the DataFrame: raw rows, then the aggregated rows
    model,         \* the implicit ALS model object
    artists,       \* implicit_data["artists"].unique()
    venues,        \* implicit_data["venues"].unique()
    shape,         \* (len(artists), len(venues))
    artist_index,  \* category codes of the artists column
    venue_index,   \* category codes of the venues column
    csr,           \* the artist-major sparse matrix, as rows of values
    artist_id,     \* queried position of cell 0d24936a
    venue_id,      \* queried position of cell 2f9ed24d
    results,       \* what model.recommend returned last
    frame,         \* the result DataFrame of the last query cell
    dumped         \* content of model.joblib

vars == <<pc, err, data_csv, implicit_data, model, artists, venues, shape,
          artist_index, venue_index, csr, artist_id, venue_id, results,
          frame, dumped>>

----
\* Bounds of the model.

\* most rows in data.csv
MaxRows == 3

\* external identifiers that occur in data.csv
ArtistIds == {1, 2}
VenueIds == {1, 2}

\* values a latent factor takes after training (one latent dimension)
LatentVals == {0, 1}

\* positions a query cell may be edited to ask for
QueryPositions == {0, 1, 2}

----
\* Program constants.

\* AlternatingLeastSquares(factors=50)
factors == 50

\* model.recommend(..., N=10, ...)
N == 10

----
\* Library functions, as the notebook uses them.

At(s, p) == s[p + 1]

Range(s) == {s[i] : i \in 1..Len(s)}

Min(a, b) == IF a < b THEN a ELSE b

\* DataFrame column
Column(df, c) == [i \in 1..Len(df) |-> df[i][c]]

\* Series.unique(): distinct values, in order of first appearance
RECURSIVE Unique(_)
Unique(s) ==
    IF s = <<>> THEN <<>>
    ELSE LET init == Unique(SubSeq(s, 1, Len(s) - 1))
             x == s[Len(s)]
         IN IF x \in Range(init) THEN init ELSE Append(init, x)

\* sorted(): ascending order
RECURSIVE Sorted(_)
Sorted(s) ==
    IF s = <<>> THEN <<>>
    ELSE LET t == Sorted(Tail(s))
             x == Head(s)
             k == Cardinality({i \in 1..Len(t) : t[i] <= x})
         IN SubSeq(t, 1, k) \o <<x>> \o SubSeq(t, k + 1, Len(t))

\* the key order, were the venue compared first
KeyLessVenueFirst(a, b) ==
    \/ a.venues < b.venues
    \/ a.venues = b.venues /\ a.artists < b.artists

\* order of the group keys (artists, venues): lexicographic
KeyLess(a, b) ==
    \/ a.artists < b.artists
    \/ a.artists = b.artists /\ a.venues < b.venues

RECURSIVE SortKeys(_)
SortKeys(s) ==
    IF s = <<>> THEN <<>>
    ELSE LET t == SortKeys(Tail(s))
             x == Head(s)
             k == Cardinality({i \in 1..Len(t) : KeyLess(t[i], x) \/ t[i] = x})
         IN SubSeq(t, 1, k) \o <<x>> \o SubSeq(t, k + 1, Len(t))

\* the group keys, were they left in order of first appearance (sort=False)
GroupKeysUnsorted(df) == Unique(df)

\* the group keys of groupby(['artists', 'venues']): sort=True is the default
GroupKeys(df) == SortKeys(Unique(df))

\* the group's size, were a group only marked as present
SizeOne(df, key) == IF \E i \in 1..Len(df) : df[i] = key THEN 1 ELSE 0

\* .size(): number of rows of the group
Size(df, key) == Cardinality({i \in 1..Len(df) : df[i] = key})

\* groupby(...).size().reset_index(...), column 0 renamed to 'plays'
GroupBySize(df) ==
    LET keys == GroupKeys(df)
    IN [i \in 1..Len(keys) |->
           [artists |-> keys[i].artists,
            venues |-> keys[i].venues,
            plays |-> Size(df, keys[i])]]

\* CategoricalDtype(categories=sorted(xs), ordered=True)
CategoricalDtype(xs) == [categories |-> Sorted(xs), ordered |-> TRUE]

\* Series.astype(cat).cat.codes: 0-based position in the categories, -1 if absent
Code(cat, x) ==
    IF x \in Range(cat.categories)
    THEN (CHOOSE i \in 1..Len(cat.categories) : cat.categories[i] = x) - 1
    ELSE -1

Codes(col, cat) == [i \in 1..Len(col) |-> Code(cat, col[i])]

\* sum of vals[i] over the indices in S
RECURSIVE SumOver(_, _)
SumOver(vals, S) ==
    IF S = {} THEN 0
    ELSE LET i == CHOOSE j \in S : TRUE
         IN vals[i] + SumOver(vals, S \ {i})

\* sparse.coo_matrix((data, (row, col)), shape).tocsr(): duplicates summed
CooToCsr(data, row, col, shp) ==
    [r \in 1..shp[1] |->
        [c \in 1..shp[2] |->
            SumOver(data, {i \in 1..Len(data) : row[i] = r - 1 /\ col[i] = c - 1})]]

\* csr_row.indices: the columns that hold an entry
Indices(row) == {c - 1 : c \in {d \in 1..Len(row) : row[d] # 0}}

\* score of item i for user u: the dot product of their latent rows
Score(m, u, i) == At(m.user_factors, u) * At(m.item_factors, i)

\* the rankings model.recommend may return for user u: the N best-scoring
\* items, best first, the items of user_items left out when filtering; the
\* order among equal scores is the library's
Recommend(m, u, user_items, n, filter_already_liked_items) ==
    LET items == 0..(Len(m.item_factors) - 1)
        cands == IF filter_already_liked_items
                 THEN items \ Indices(user_items) ELSE items
        len == Min(n, Cardinality(cands))
    IN {ids \in [1..len -> cands] :
          /\ \A i, j \in 1..len : i # j => ids[i] # ids[j]
          /\ \A i, j \in 1..len : i < j => Score(m, u, ids[i]) >= Score(m, u, ids[j])
          /\ \A c \in cands \ Range(ids) :
                \A i \in 1..len : Score(m, u, ids[i]) >= Score(m, u, c)}

\* np.in1d(ids, indices)
In1d(ids, indices) == [i \in 1..Len(ids) |-> ids[i] \in indices]

----
\* The notebook.

NoModel == [created |-> FALSE, fitted |-> FALSE, factors |-> 0,
            user_factors |-> <<>>, item_factors |-> <<>>]

NoResults == [ids |-> <<>>, scores |-> <<>>]

RawRows == [artists : ArtistIds, venues : VenueIds]

DataFiles == UNION {[1..n -> RawRows] : n \in 0..MaxRows}

Init ==
    /\ data_csv \in DataFiles
    /\ pc = "read"
    /\ err = ""
    /\ implicit_data = <<>>
    /\ model = NoModel
    /\ artists = <<>>
    /\ venues = <<>>
    /\ shape = <<0, 0>>
    /\ artist_index = <<>>
    /\ venue_index = <<>>
    /\ csr = <<>>
    /\ artist_id = 0
    /\ venue_id = 0
    /\ results = NoResults
    /\ frame = <<>>
    /\ dumped = NoModel

\* a cell runs when the notebook has reached it and no cell before it raised
AtCell(c) == pc = c /\ err = ""

\* an exception ends the run of the notebook at the cell that raised it
Raise(e) == pc' = pc /\ err' = e

\* read_csv, were an empty file read as an empty DataFrame
ReadCsvAcceptsEmpty(file) == TRUE

\* pd.read_csv: an empty file raises pandas.errors.EmptyDataError
ReadCsvAccepts(file) == file # <<>>

\* cell 0725e3e5
ReadCell ==
    /\ AtCell("read")
    /\ IF ReadCsvAccepts(data_csv)
       THEN /\ implicit_data' = data_csv
            /\ pc' = "aggregate"
            /\ err' = err
       ELSE /\ Raise("EmptyDataError")
            /\ implicit_data' = implicit_data
    /\ UNCHANGED <<data_csv, model, artists, venues, shape, artist_index,
                   venue_index, csr, artist_id, venue_id, results, frame, dumped>>

\* cell deb04a0c
AggregateCell ==
    /\ AtCell("aggregate")
    /\ implicit_data' = GroupBySize(implicit_data)
    /\ pc' = "create"
    /\ UNCHANGED <<err, data_csv, model, artists, venues, shape, artist_index,
                   venue_index, csr, artist_id, venue_id, results, frame, dumped>>

\* cell 9ed488dc
CreateModelCell ==
    /\ AtCell("create")
    /\ model' = [NoModel EXCEPT !.created = TRUE, !.factors = factors]
    /\ pc' = "vocabulary"
    /\ UNCHANGED <<err, data_csv, implicit_data, artists, venues, shape,
                   artist_index, venue_index, csr, artist_id, venue_id, results,
                   frame, dumped>>

\* cell 3845bee7
VocabularyCell ==
    /\ AtCell("vocabulary")
    /\ artists' = Unique(Column(implicit_data, "artists"))
    /\ venues' = Unique(Column(implicit_data, "venues"))
    /\ shape' = <<Len(artists'), Len(venues')>>
    /\ pc' = "index"
    /\ UNCHANGED <<err, data_csv, implicit_data, model, artist_index,
                   venue_index, csr, artist_id, venue_id, results, frame, dumped>>

artist_cat == CategoricalDtype(artists)

venue_cat == CategoricalDtype(venues)

\* cell 8acb6883
IndexCell ==
    /\ AtCell("index")
    /\ artist_index' = Codes(Column(implicit_data, "artists"), artist_cat)
    /\ venue_index' = Codes(Column(implicit_data, "venues"), venue_cat)
    /\ csr' = CooToCsr(Column(implicit_data, "plays"), artist_index',
                       venue_index', shape)
    /\ pc' = "fit"
    /\ UNCHANGED <<err, data_csv, implicit_data, model, artists, venues, shape,
                   artist_id, venue_id, results, frame, dumped>>

\* cell f4a4a653: model.fit(csr) returns with one latent row per row of csr
\* (users) and one per column (items)
FitCell ==
    /\ AtCell("fit")
    /\ \E U \in [1..shape[1] -> LatentVals], V \in [1..shape[2] -> LatentVals] :
          model' = [model EXCEPT !.fitted = TRUE,
                                 !.user_factors = U,
                                 !.item_factors = V]
    /\ pc' = "artist_query"
    /\ UNCHANGED <<err, data_csv, implicit_data, artists, venues, shape,
                   artist_index, venue_index, csr, artist_id, venue_id, results,
                   frame, dumped>>

\* scores of a ranking, for user u
Scores(m, u, ids) == [i \in 1..Len(ids) |-> Score(m, u, ids[i])]

\* cell 0d24936a, csr[artist_id] out of range: scipy raises IndexError
ArtistCellOutOfRange ==
    /\ AtCell("artist_query")
    /\ \E a \in QueryPositions :
          /\ a >= Len(csr)
          /\ artist_id' = a
    /\ Raise("IndexError")
    /\ UNCHANGED <<data_csv, implicit_data, model, artists, venues, shape,
                   artist_index, venue_index, csr, venue_id, results, frame,
                   dumped>>

\* cell 0d24936a: the call hands model.recommend the whole artist_index as
\* userid and the single row csr[artist_id] as user_items; the library may
\* refuse the mismatch
ArtistCellRejected ==
    /\ AtCell("artist_query")
    /\ \E a \in QueryPositions :
          /\ a < Len(csr)
          /\ artist_id' = a
    /\ Raise("ValueError")
    /\ UNCHANGED <<data_csv, implicit_data, model, artists, venues, shape,
                   artist_index, venue_index, csr, venue_id, results, frame,
                   dumped>>

\* the 'venue' column of the artist cell's DataFrame: venues[ids]
VenueLabels(ids) == [i \in 1..Len(ids) |-> At(venues, ids[i])]

\* cell 0d24936a: or it answers for the row it was given
ArtistCell ==
    /\ AtCell("artist_query")
    /\ \E a \in QueryPositions :
          /\ a < Len(csr)
          /\ artist_id' = a
          /\ \E ids \in Recommend(model, a, At(csr, a), N, TRUE) :
                /\ results' = [ids |-> ids, scores |-> Scores(model, a, ids)]
                /\ frame' = [venue |-> VenueLabels(ids),
                             score |-> Scores(model, a, ids),
                             already_liked |-> In1d(ids, Indices(At(csr, a)))]
    /\ pc' = "venue_query"
    /\ UNCHANGED <<err, data_csv, implicit_data, model, artists, venues, shape,
                   artist_index, venue_index, csr, venue_id, dumped>>

\* cell 2f9ed24d, csr[venue_id] out of range: the rows of csr are artists
VenueCellOutOfRange ==
    /\ AtCell("venue_query")
    /\ \E v \in QueryPositions :
          /\ v >= Len(csr)
          /\ venue_id' = v
    /\ Raise("IndexError")
    /\ UNCHANGED <<data_csv, implicit_data, model, artists, venues, shape,
                   artist_index, venue_index, csr, artist_id, results, frame,
                   dumped>>

\* artists[ids] and csr[venue_index] index out of range
VenueFrameRaises(ids) ==
    \/ \E i \in 1..Len(ids) : ids[i] >= Len(artists)
    \/ \E i \in 1..Len(venue_index) : venue_index[i] >= Len(csr)

\* csr[venue_index].indices
LikedOfVenueIndex ==
    UNION {Indices(At(csr, venue_index[i])) : i \in 1..Len(venue_index)}

\* the venue cell, were it to keep its labels in `artists`
VenueCellRelabelsArtists ==
    /\ AtCell("venue_query")
    /\ \E v \in QueryPositions :
          /\ v < Len(csr)
          /\ venue_id' = v
          /\ \E ids \in Recommend(model, v, At(csr, v), N, TRUE) :
                /\ results' = [ids |-> ids, scores |-> Scores(model, v, ids)]
                /\ IF VenueFrameRaises(ids)
                   THEN /\ Raise("IndexError")
                        /\ frame' = frame
                        /\ artists' = artists
                   ELSE /\ artists' = [i \in 1..Len(ids) |-> At(artists, ids[i])]
                        /\ frame' = [artist |-> artists',
                                     score |-> Scores(model, v, ids),
                                     already_liked |-> In1d(ids, LikedOfVenueIndex)]
                        /\ pc' = "dump"
                        /\ err' = err
    /\ UNCHANGED <<data_csv, implicit_data, model, venues, shape,
                   artist_index, venue_index, csr, artist_id, dumped>>

\* cell 2f9ed24d: model.recommend(venue_id, csr[venue_id], ...) is the same
\* call as for an artist, with user venue_id and row venue_id of csr
VenueCell ==
    /\ AtCell("venue_query")
    /\ \E v \in QueryPositions :
          /\ v < Len(csr)
          /\ venue_id' = v
          /\ \E ids \in Recommend(model, v, At(csr, v), N, TRUE) :
                /\ results' = [ids |-> ids, scores |-> Scores(model, v, ids)]
                /\ IF VenueFrameRaises(ids)
                   THEN /\ Raise("IndexError")
                        /\ frame' = frame
                   ELSE /\ frame' = [artist |-> [i \in 1..Len(ids) |-> At(artists, ids[i])],
                                     score |-> Scores(model, v, ids),
                                     already_liked |-> In1d(ids, LikedOfVenueIndex)]
                        /\ pc' = "dump"
                        /\ err' = err
    /\ UNCHANGED <<data_csv, implicit_data, model, artists, venues, shape,
                   artist_index, venue_index, csr, artist_id, dumped>>

\* cell 16b0817b
DumpCell ==
    /\ AtCell("dump")
    /\ dumped' = model
    /\ pc' = "done"
    /\ UNCHANGED <<err, data_csv, implicit_data, model, artists, venues, shape,
                   artist_index, venue_index, csr, artist_id, venue_id, results,
                   frame>>

Next ==
    \/ ReadCell
    \/ AggregateCell
    \/ CreateModelCell
    \/ VocabularyCell
    \/ IndexCell
    \/ FitCell
    \/ ArtistCellOutOfRange
    \/ ArtistCellRejected
    \/ ArtistCell
    \/ VenueCellOutOfRange
    \/ VenueCell
    \/ DumpCell

Spec == Init /\ [][Next]_vars

----
\* Properties of the aggregation and of the indices.

\* the cells up to and including the named one have run without raising
Aggregated == pc \notin {"read", "aggregate"}

VocabularyBuilt == pc \notin {"read", "aggregate", "create", "vocabulary"}

Indexed == pc \notin {"read", "aggregate", "create", "vocabulary", "index"}

\* occurrences of the pair (a, v) in data.csv
Occurrences(a, v) ==
    Cardinality({j \in 1..Len(data_csv) :
                    data_csv[j].artists = a /\ data_csv[j].venues = v})

Reorderings(file) ==
    {[i \in 1..Len(file) |-> file[p[i]]] :
        p \in {q \in [1..Len(file) -> 1..Len(file)] :
                  \A i, j \in 1..Len(file) : i # j => q[i] # q[j]}}

\* what cells deb04a0c, 3845bee7 and 8acb6883 compute from a file
IndexOf(file) ==
    LET df == GroupBySize(file)
        a == Unique(Column(df, "artists"))
        v == Unique(Column(df, "venues"))
        ai == Codes(Column(df, "artists"), CategoricalDtype(a))
        vi == Codes(Column(df, "venues"), CategoricalDtype(v))
    IN [artist_index |-> ai,
        venue_index |-> vi,
        plays |-> Column(df, "plays"),
        csr |-> CooToCsr(Column(df, "plays"), ai, vi, <<Len(a), Len(v)>>)]

C6_EmptyInputFailsFirst ==
    data_csv = <<>> =>
        /\ pc = "read"
        /\ err \in {"", "EmptyDataError"}
        /\ ~ENABLED (Next /\ err' # "EmptyDataError")
        /\ ~model.created
        /\ ~model.fitted
        /\ csr = <<>>
        /\ implicit_data = <<>>
        /\ dumped = NoModel

\* the read cell has raised on the empty file
C6_Witness ==
    /\ data_csv = <<>>
    /\ pc = "read"
    /\ err = "EmptyDataError"

----
\* Properties of the query cells.

\* the artist cell has answered and its DataFrame is the current one
ArtistCellAnswered == AtCell("venue_query")

\* the artist cell has run, whatever came of it
ArtistCellRan == pc \in {"venue_query", "dump", "done"} \/ (pc = "artist_query" /\ err # "")

\* the venue cell has run, or has answered
VenueCellRan == pc \in {"dump", "done"} \/ (pc = "venue_query" /\ err # "")

VenueCellAnswered == pc \in {"dump", "done"}

\* the venue identifiers the artist at position p has an aggregated row with
ObservedVenues(p) ==
    {r.venues : r \in {x \in Range(implicit_data) : Code(artist_cat, x.artists) = p}}

\* the artist positions that have an aggregated row with the venue at
\* position q: the nonzeros of row q of the venue-major view
ObservedArtistPositions(q) ==
    {Code(artist_cat, r.artists) :
        r \in {x \in Range(implicit_data) : Code(venue_cat, x.venues) = q}}

C2_LookupInvertsPosition ==
    Indexed =>
        \A v \in Range(venues) : At(venues, Code(venue_cat, v)) = v

\* C5: the venue cell, asked for an existing venue position q, returns exactly
\* the artist positions not observed for venue q, scored by the latent row of
\* venue q against the artists' latent rows, and labels each with the artist
\* at that position.
C5_VenueQuerySymmetric ==
    (VenueCellAnswered /\ venue_id < Len(venues)) =>
        /\ Range(results.ids)
              = (0..(Len(artists) - 1)) \ ObservedArtistPositions(venue_id)
        /\ \A i \in 1..Len(results.ids) :
              /\ results.scores[i]
                    = At(model.item_factors, venue_id)
                         * At(model.user_factors, results.ids[i])
              /\ frame.artist[i] = At(artist_cat.categories, results.ids[i])

\* C7: a query cell raises the out-of-range error exactly when the position
\* it asks for is outside the queried side's vocabulary, and then it has
\* built no DataFrame.
C7_OutOfRangeIffNotFound ==
    /\ ArtistCellRan =>
          (artist_id >= Len(artists)
              <=> (pc = "artist_query" /\ err = "IndexError"))
    /\ VenueCellRan =>
          (venue_id >= Len(venues)
              <=> (pc = "venue_query" /\ err = "IndexError"))

====
